---------------------------- MODULE Spec2Model ----------------------------
(***************************************************************************)
(* FileCache (src/src/index.ts): a flat-file key/value cache.  Every entry *)
(* is one file under the cache root, named sha1(key); the file's content   *)
(* is JSON.stringify(value) and its modification time is the expiry        *)
(* deadline.                                                               *)
(*                                                                         *)
(* The model follows node's execution: an fs call is issued on the main    *)
(* thread, takes effect on the filesystem at some later point (the Fs...   *)
(* actions, run by the thread pool), and the code after the await runs     *)
(* later still on the main thread (the Cont... actions).  Calls that are   *)
(* not awaited (unlink and rmdir in deleteFolderRecursive) stay in `pend`  *)
(* until the pool runs them (the Pool... actions).  The ...Sync calls of   *)
(* deleteFolderRecursive block the main thread: while a walk is going on   *)
(* no continuation runs and no operation starts, but calls already issued  *)
(* still take effect.                                                      *)
(***************************************************************************)
EXTENDS Integers, Sequences, FiniteSets, TLC

\* ------------------------------------------------------------------ bounds
MaxTicks == 2       \* clock steps of a behaviour whose calls run one at a time
MaxOps == 2         \* public operations such a behaviour may start
RaceTicks == 1      \* clock steps of a behaviour whose calls overlap
RaceOps == 2        \* public operations such a behaviour may start
MaxTTL == 1         \* largest ttl option, in seconds (0 stands for "no ttl")
MaxInFlight == 2    \* async calls (createFolder included) running at once

\* --------------------------------------------------------------- constants
SecMs == 1000                       \* milliseconds per second (time())
DefaultTTL == 60 * 60 * 24          \* constructor's fallback ttl, in seconds
TickMs == SecMs \div 2              \* granularity of the model's clock
StartTime == 2 * SecMs + TickMs            \* Date.now() when the model starts
PastTime == StartTime - TickMs      \* mtime of a pre-existing expired file
FutureTime == StartTime + SecMs  \* mtime of a pre-existing live file

Keys == {"a", "b"}
Values == {1, 22}
Clients == {"c1", "c2"}
Ctor == "ctor"
Procs == Clients \cup {Ctor}

\* ------------------------------------------------------------ pure helpers
\* sha1(key) as a file name: the name is a sequence of its dot-separated
\* parts; a hex digest has no dot.  (First six hex digits of the digests.)
sha1 == [k \in Keys |-> IF k = "a" THEN <<"86f7e4">> ELSE <<"e9d71f">>]

getPath(key) == sha1[key]

HashNames == {getPath(k) : k \in Keys}
SubName == <<"tmp">>                \* a foreign subdirectory in the root
RootName == <<>>                    \* the root directory itself
Names == HashNames \cup {SubName}

\* the order in which readdir lists the names of a directory
ListOrder == <<getPath("a"), getPath("b"), SubName>>
First(S) == ListOrder[CHOOSE i \in 1..Len(ListOrder) :
                /\ ListOrder[i] \in S
                /\ \A j \in 1..(i - 1) : ListOrder[j] \notin S]

\* file.split('.')[0]
SplitDot(file) == <<Head(file)>>

\* Math.floor(Date.now() / 1000)
time(t) == t \div SecMs

\* validate's test `this.time() < stats.mtime.getTime() / 1000` at clock t
Live(t, mtime) == time(t) * SecMs < mtime

\* ------------------------------------------------------------ JS values
Null == [t |-> "null", n |-> 0, b |-> FALSE, s |-> {}]
Undefined == [t |-> "undefined", n |-> 0, b |-> FALSE, s |-> {}]
Num(v) == [t |-> "num", n |-> v, b |-> FALSE, s |-> {}]
Bool(x) == [t |-> "bool", n |-> 0, b |-> x, s |-> {}]
Arr(x) == [t |-> "arr", n |-> 0, b |-> FALSE, s |-> x]

\* the outcome of an fs call
Res(code) == [code |-> code, mtime |-> 0, data |-> <<>>, names |-> {}]
\* how a promise settled: code "ok" (resolved with v) or an error code
NoRet == [code |-> "none", v |-> Undefined]
Ok(v) == [code |-> "ok", v |-> v]
Err(code) == [code |-> code, v |-> Undefined]

DigitChars == <<"0", "1", "2", "3", "4", "5", "6", "7", "8", "9">>

RECURSIVE Stringify(_)
\* JSON.stringify of a non-negative integer: its decimal digits
Stringify(v) ==
    IF v < 10 THEN <<DigitChars[v + 1]>>
    ELSE Stringify(v \div 10) \o <<DigitChars[(v % 10) + 1]>>

IsDigit(c) == \E d \in 0..9 : DigitChars[d + 1] = c
DigitOf(c) == CHOOSE d \in 0..9 : DigitChars[d + 1] = c

\* whether JSON.parse accepts the text (as a number without a leading zero)
Parses(s) ==
    /\ Len(s) > 0
    /\ \A i \in 1..Len(s) : IsDigit(s[i])
    /\ (Len(s) > 1 => s[1] # "0")

RECURSIVE ParseNum(_)
ParseNum(s) ==
    IF Len(s) = 0 THEN 0
    ELSE 10 * ParseNum(SubSeq(s, 1, Len(s) - 1)) + DigitOf(s[Len(s)])

\* a parse failure turned into a miss
ParseOrNull(data) == IF Parses(data) THEN Ok(Num(ParseNum(data))) ELSE Ok(Null)

\* JSON.parse(data) as the outcome of get
Parse(data) == IF Parses(data) THEN Ok(Num(ParseNum(data))) ELSE Err("SyntaxError")

\* a write of `data` at offset 0 over the file's current content
Overlay(old, data) == data \o SubSeq(old, Len(data) + 1, Len(old))

\* ------------------------------------------------------------ directory
NoEnt == [kind |-> "none", data |-> <<>>, mtime |-> 0]
DirEnt == [kind |-> "dir", data |-> <<>>, mtime |-> 0]
File(d, m) == [kind |-> "file", data |-> d, mtime |-> m]

PendOps == [t : {"unlink"}, n : HashNames] \cup [t : {"rmdir"}, n : {SubName, RootName}]

VARIABLES
    now,            \* Date.now(), in milliseconds
    root,           \* whether the cache root directory exists
    dir,            \* the root's entries: name -> NoEnt, DirEnt or a file
    writable,       \* whether the root's parent allows mkdir
    constructed,    \* whether the constructor has returned
    options,        \* this.options.ttl (0 stands for "no ttl")
    ttl,            \* this.ttl, in seconds
    proc,           \* the async call running in each slot
    pend,           \* issued and not awaited fs calls, not yet executed
    unhandled,      \* whether a promise nobody awaits has rejected
    nops            \* public operations started so far

vars == <<now, root, dir, writable, constructed, options, ttl, proc, pend, unhandled, nops>>

\* One async call.  op: the public operation (createFolder for the
\* constructor's); pc: the fs call it is at; st: "call" (issued), "back" (it
\* has taken effect, res is its outcome, the code after the await has not run
\* yet), "sync" (inside the synchronous walk), "done" (settled with ret).
\* name: the path under the root; val, opt, dl: set's value, options.ttl and
\* deadline; orphan: writeFile's descriptor lost its name; todo: names still to
\* visit; after: the operation this slot resolved before this one; late:
\* Date.now() had reached the mtime in some comparison validate made for this
\* call; at: Date.now() when has got its stat result; rep, rat: what the has
\* of the same key that this slot resolved just before returned, and its `at`.
Idle == [op |-> "idle", pc |-> "idle", st |-> "idle", name |-> RootName,
         val |-> 0, opt |-> 0, dl |-> 0, orphan |-> FALSE, todo |-> {},
         res |-> Res("none"), ret |-> NoRet, after |-> "none", late |-> FALSE,
         at |-> 0, rep |-> "none", rat |-> 0]

\* the main thread is inside deleteFolderRecursive's synchronous walk
Walking == \E q \in Procs : proc[q].st = "sync"

Upd(p, r) == proc' = [proc EXCEPT ![p] = r]

\* issue the fs call `pc` and await it
Call(r, pc) == [r EXCEPT !.pc = pc, !.st = "call", !.res = Res("none")]

\* the promise of the running operation settles
Settle(r, ret) ==
    [Idle EXCEPT !.op = r.op, !.name = r.name, !.pc = "done", !.st = "done", !.ret = ret,
                 !.late = r.late, !.after = r.after, !.val = r.val, !.dl = r.dl,
                 !.at = r.at]

\* what a previous process lifetime may have left in the root
Content(a, b, sub) ==
    [n \in Names |-> IF n = getPath("a") THEN a ELSE IF n = getPath("b") THEN b ELSE sub]
ExpiredFile == File(Stringify(1), PastTime)
LiveFile == File(Stringify(1), FutureTime)
\* a file whose deadline is one clock step away
SoonFile == File(Stringify(1), StartTime + TickMs)
\* a live file whose content JSON.parse rejects
CorruptFile == File(<<"{">>, FutureTime)
InitDirs ==
    {Content(NoEnt, NoEnt, NoEnt), Content(ExpiredFile, NoEnt, NoEnt),
     Content(LiveFile, NoEnt, NoEnt), Content(ExpiredFile, LiveFile, NoEnt),
     Content(SoonFile, CorruptFile, NoEnt), Content(ExpiredFile, NoEnt, DirEnt)}

Init ==
    /\ now = StartTime
    /\ root \in BOOLEAN
    /\ writable \in BOOLEAN
    /\ root => writable
    /\ dir \in (IF root THEN InitDirs ELSE {Content(NoEnt, NoEnt, NoEnt)})
    /\ constructed = FALSE
    /\ options = 0
    /\ ttl = 0
    /\ proc = [p \in Procs |-> Idle]
    /\ pend = [o \in PendOps |-> 0]
    /\ unhandled = FALSE
    /\ nops = 0

\* ------------------------------------------------------------ constructor
\* new FileCache(path, {ttl: t}): createFolder() is called and not awaited
Construct(t) ==
    /\ ~constructed
    /\ constructed' = TRUE
    /\ options' = t
    /\ ttl' = IF options' # 0 THEN options' ELSE DefaultTTL
    /\ Upd(Ctor, Call([Idle EXCEPT !.op = "createFolder"], "mkdir"))
    /\ UNCHANGED <<now, root, dir, writable, pend, unhandled, nops>>

\* Un-awaited promises: the constructor's createFolder() has no handler
Finish(p, r) ==
    /\ Upd(p, r)
    /\ unhandled' = (unhandled \/ (p = Ctor /\ r.st = "done" /\ r.ret.code # "ok"))

\* ------------------------------------------------------- filesystem effects
\* every open descriptor on `n` now refers to a file without a name
Orphaned(n) ==
    [q \in Procs |-> IF proc[q].pc = "write" /\ proc[q].st = "call" /\ proc[q].name = n
                     THEN [proc[q] EXCEPT !.orphan = TRUE] ELSE proc[q]]

Back(r, res) == [r EXCEPT !.st = "back", !.res = res]

\* mkdir(this.path)
FsMkdir(p) ==
    /\ proc[p].pc = "mkdir" /\ proc[p].st = "call"
    /\ IF root THEN /\ Upd(p, Back(proc[p], Res("EEXIST")))
                    /\ UNCHANGED root
       ELSE IF writable THEN /\ root' = TRUE
                             /\ Upd(p, Back(proc[p], Res("ok")))
       ELSE /\ Upd(p, Back(proc[p], Res("EACCES")))
            /\ UNCHANGED root
    /\ UNCHANGED <<now, dir, writable, constructed, options, ttl, pend, unhandled, nops>>

\* fs.promises.readdir(this.path)
FsReaddir(p) ==
    /\ proc[p].pc = "readdir" /\ proc[p].st = "call"
    /\ Upd(p, Back(proc[p],
            IF root THEN [Res("ok") EXCEPT !.names = {n \in Names : dir[n].kind # "none"}]
            ELSE Res("ENOENT")))
    /\ UNCHANGED <<now, root, dir, writable, constructed, options, ttl, pend, unhandled, nops>>

\* fs.promises.stat(file)
FsStat(p) ==
    /\ proc[p].pc = "stat" /\ proc[p].st = "call"
    /\ LET e == dir[proc[p].name] IN
       Upd(p, Back(proc[p],
            IF e.kind = "none" THEN Res("ENOENT")
            ELSE IF e.kind = "dir" THEN Res("dir")
            ELSE [Res("file") EXCEPT !.mtime = e.mtime]))
    /\ UNCHANGED <<now, root, dir, writable, constructed, options, ttl, pend, unhandled, nops>>

\* unlink removing the first file of the root instead of the one named
FsUnlinkFirst(p) ==
    /\ proc[p].pc = "unlink" /\ proc[p].st = "call"
    /\ LET files == {m \in HashNames : dir[m].kind = "file"} IN
       IF files # {}
       THEN /\ dir' = [dir EXCEPT ![First(files)] = NoEnt]
            /\ proc' = [Orphaned(First(files)) EXCEPT ![p] = Back(proc[p], Res("ok"))]
       ELSE /\ Upd(p, Back(proc[p], Res("ENOENT")))
            /\ UNCHANGED dir
    /\ UNCHANGED <<now, root, writable, constructed, options, ttl, pend, unhandled, nops>>

\* unlink(file), awaited (validate, delete)
FsUnlink(p) ==
    /\ proc[p].pc = "unlink" /\ proc[p].st = "call"
    /\ LET n == proc[p].name IN
       IF dir[n].kind = "file"
       THEN /\ dir' = [dir EXCEPT ![n] = NoEnt]
            /\ proc' = [Orphaned(n) EXCEPT ![p] = Back(proc[p], Res("ok"))]
       ELSE /\ Upd(p, Back(proc[p], Res("ENOENT")))
            /\ UNCHANGED dir
    /\ UNCHANGED <<now, root, writable, constructed, options, ttl, pend, unhandled, nops>>

\* fs.promises.readFile(path, 'utf8')
FsReadFile(p) ==
    /\ proc[p].pc = "readFile" /\ proc[p].st = "call"
    /\ LET e == dir[proc[p].name] IN
       Upd(p, Back(proc[p],
            IF e.kind = "file" THEN [Res("ok") EXCEPT !.data = e.data]
            ELSE Res("ENOENT")))
    /\ UNCHANGED <<now, root, dir, writable, constructed, options, ttl, pend, unhandled, nops>>

\* fs.promises.writeFile, first half: open(path, 'w') creates or truncates
FsOpen(p) ==
    /\ proc[p].pc = "open" /\ proc[p].st = "call"
    /\ LET n == proc[p].name IN
       IF root /\ dir[n].kind # "dir"
       THEN /\ dir' = [dir EXCEPT ![n] = File(<<>>, now)]
            /\ Upd(p, [proc[p] EXCEPT !.pc = "write", !.orphan = FALSE])
       ELSE /\ Upd(p, Back(proc[p], Res("ENOENT")))
            /\ UNCHANGED dir
    /\ UNCHANGED <<now, root, writable, constructed, options, ttl, pend, unhandled, nops>>

\* fs.promises.writeFile, second half: write the data at offset 0, close
FsWrite(p) ==
    /\ proc[p].pc = "write" /\ proc[p].st = "call"
    /\ LET n == proc[p].name IN
       IF proc[p].orphan
       THEN UNCHANGED dir
       ELSE dir' = [dir EXCEPT ![n] = File(Overlay(dir[n].data, Stringify(proc[p].val)), now)]
    /\ Upd(p, Back(proc[p], Res("ok")))
    /\ UNCHANGED <<now, root, writable, constructed, options, ttl, pend, unhandled, nops>>

\* utimes with its two dates swapped: the mtime becomes `new Date()`
FsUtimesSwapped(p) ==
    /\ proc[p].pc = "utimes" /\ proc[p].st = "call"
    /\ LET n == proc[p].name IN
       IF dir[n].kind = "file"
       THEN /\ dir' = [dir EXCEPT ![n].mtime = now]
            /\ Upd(p, Back(proc[p], Res("ok")))
       ELSE /\ Upd(p, Back(proc[p], Res("ENOENT")))
            /\ UNCHANGED dir
    /\ UNCHANGED <<now, root, writable, constructed, options, ttl, pend, unhandled, nops>>

\* fs.promises.utimes(path, atime, mtime)
FsUtimes(p) ==
    /\ proc[p].pc = "utimes" /\ proc[p].st = "call"
    /\ LET n == proc[p].name IN
       IF dir[n].kind = "file"
       THEN /\ dir' = [dir EXCEPT ![n].mtime = proc[p].dl]
            /\ Upd(p, Back(proc[p], Res("ok")))
       ELSE /\ Upd(p, Back(proc[p], Res("ENOENT")))
            /\ UNCHANGED dir
    /\ UNCHANGED <<now, root, writable, constructed, options, ttl, pend, unhandled, nops>>

\* unlink(curPath) of deleteFolderRecursive: nobody awaits it
PoolUnlink(n) ==
    /\ pend[[t |-> "unlink", n |-> n]] > 0
    /\ pend' = [pend EXCEPT ![[t |-> "unlink", n |-> n]] = @ - 1]
    /\ IF dir[n].kind = "file"
       THEN /\ dir' = [dir EXCEPT ![n] = NoEnt]
            /\ proc' = Orphaned(n)
            /\ UNCHANGED unhandled
       ELSE /\ unhandled' = TRUE
            /\ UNCHANGED <<dir, proc>>
    /\ UNCHANGED <<now, root, writable, constructed, options, ttl, nops>>

\* rmdir(folder) of deleteFolderRecursive: nobody awaits it
PoolRmdir(n) ==
    /\ pend[[t |-> "rmdir", n |-> n]] > 0
    /\ pend' = [pend EXCEPT ![[t |-> "rmdir", n |-> n]] = @ - 1]
    /\ IF n = RootName
       THEN IF root /\ \A m \in Names : dir[m].kind = "none"
            THEN root' = FALSE /\ UNCHANGED <<dir, unhandled>>
            ELSE unhandled' = TRUE /\ UNCHANGED <<root, dir>>
       ELSE IF dir[n].kind = "dir"
            THEN dir' = [dir EXCEPT ![n] = NoEnt] /\ UNCHANGED <<root, unhandled>>
            ELSE unhandled' = TRUE /\ UNCHANGED <<root, dir>>
    /\ UNCHANGED <<now, writable, constructed, options, ttl, proc, nops>>

\* ------------------------------------------------------------ continuations
\* validateCache's loop: validate the next key, or return
NextKey(r) ==
    IF r.todo = {} THEN Settle([r EXCEPT !.name = RootName], Ok(Undefined))
    ELSE LET n == First(r.todo) IN
         Call([r EXCEPT !.name = n, !.todo = r.todo \ {n}], "stat")

\* validate(file) returns b to has, get or validateCache
ValidateReturn(r, b) ==
    IF r.op = "has" THEN Settle(r, Ok(Bool(b)))
    ELSE IF r.op = "get"
         THEN IF b THEN Call(r, "readFile") ELSE Settle(r, Ok(Null))
    ELSE NextKey(r)

\* createFolder after `await mkdir`: EEXIST is swallowed, then validateCache
ContMkdir(p) ==
    /\ ~Walking
    /\ proc[p].pc = "mkdir" /\ proc[p].st = "back"
    /\ Finish(p, IF proc[p].res.code \in {"ok", "EEXIST"}
                 THEN Call(proc[p], "readdir")
                 ELSE Settle(proc[p], Err(proc[p].res.code)))
    /\ UNCHANGED <<now, root, dir, writable, constructed, options, ttl, pend, nops>>

\* getAllKeys after `await readdir`, and validateCache's use of its result
ContReaddir(p) ==
    /\ ~Walking
    /\ proc[p].pc = "readdir" /\ proc[p].st = "back"
    /\ LET keys == IF proc[p].res.code = "ENOENT" THEN {}
                   ELSE {SplitDot(f) : f \in proc[p].res.names} IN
       IF proc[p].op = "getAllKeys"
       THEN Finish(p, Settle(proc[p], Ok(Arr(keys))))
       ELSE Finish(p, NextKey([proc[p] EXCEPT !.todo = keys]))
    /\ UNCHANGED <<now, root, dir, writable, constructed, options, ttl, pend, nops>>

\* validate after `await stat`
ContStat(p) ==
    /\ ~Walking
    /\ proc[p].pc = "stat" /\ proc[p].st = "back"
    /\ LET r == [proc[p] EXCEPT !.at = IF proc[p].op = "has" THEN now ELSE 0] IN
       IF r.res.code = "file"
       THEN LET r1 == [r EXCEPT !.late = (r.late \/ now >= r.res.mtime)] IN
            IF Live(now, r.res.mtime)
            THEN Finish(p, ValidateReturn(r1, TRUE))
            ELSE Finish(p, Call(r1, "unlink"))
       ELSE Finish(p, ValidateReturn(r, FALSE))
    /\ UNCHANGED <<now, root, dir, writable, constructed, options, ttl, pend, nops>>

\* delete catching ENOENT the way validate does
ContUnlinkTolerant(p) ==
    /\ ~Walking
    /\ proc[p].pc = "unlink" /\ proc[p].st = "back"
    /\ IF proc[p].op = "delete"
       THEN Finish(p, Settle(proc[p], Ok(Undefined)))
       ELSE Finish(p, ValidateReturn(proc[p], FALSE))
    /\ UNCHANGED <<now, root, dir, writable, constructed, options, ttl, pend, nops>>

\* after `await unlink`: in validate ENOENT is caught, in delete it is not
ContUnlink(p) ==
    /\ ~Walking
    /\ proc[p].pc = "unlink" /\ proc[p].st = "back"
    /\ IF proc[p].op = "delete"
       THEN Finish(p, Settle(proc[p], IF proc[p].res.code = "ok" THEN Ok(Undefined)
                                      ELSE Err(proc[p].res.code)))
       ELSE Finish(p, ValidateReturn(proc[p], FALSE))
    /\ UNCHANGED <<now, root, dir, writable, constructed, options, ttl, pend, nops>>

\* get after `await readFile`: JSON.parse(data)
ContReadFile(p) ==
    /\ ~Walking
    /\ proc[p].pc = "readFile" /\ proc[p].st = "back"
    /\ LET r == proc[p] IN
       Finish(p, Settle(r, IF r.res.code # "ok" THEN Err(r.res.code) ELSE Parse(r.res.data)))
    /\ UNCHANGED <<now, root, dir, writable, constructed, options, ttl, pend, nops>>

\* the per-call ttl ignored: always this.ttl
EffectiveTTLIgnored(t) == ttl

\* options.ttl || this.ttl
EffectiveTTL(t) == IF t # 0 THEN t ELSE ttl

\* set after `await writeFile`: the deadline is computed, utimes is issued
ContWrite(p) ==
    /\ ~Walking
    /\ proc[p].pc \in {"open", "write"} /\ proc[p].st = "back"
    /\ LET r == proc[p] IN
       Finish(p, IF r.res.code # "ok" THEN Settle(r, Err(r.res.code))
                 ELSE Call([r EXCEPT !.dl = now + EffectiveTTL(r.opt) * SecMs],
                           "utimes"))
    /\ UNCHANGED <<now, root, dir, writable, constructed, options, ttl, pend, nops>>

\* set after `await utimes`
ContUtimes(p) ==
    /\ ~Walking
    /\ proc[p].pc = "utimes" /\ proc[p].st = "back"
    /\ Finish(p, Settle(proc[p], IF proc[p].res.code = "ok" THEN Ok(Undefined)
                                 ELSE Err(proc[p].res.code)))
    /\ UNCHANGED <<now, root, dir, writable, constructed, options, ttl, pend, nops>>

\* ------------------------------------------- deleteFolderRecursive's walk
Issue(o) == pend' = [pend EXCEPT ![o] = @ + 1]

\* clearFolder() has returned: deleteAll resolves, clear goes on to createFolder
WalkDone(r) ==
    IF r.op = "deleteAll" THEN Settle(r, Ok(Undefined)) ELSE Call(r, "mkdir")

\* fs.readdirSync(folder); it throws when the root is gone since existsSync
WalkReaddir(p) ==
    /\ proc[p].pc = "readdirSync" /\ proc[p].st = "sync"
    /\ Upd(p, IF root
              THEN [proc[p] EXCEPT !.pc = "lstatSync",
                                   !.todo = {n \in Names : dir[n].kind # "none"}]
              ELSE Settle(proc[p], Err("ENOENT")))
    /\ UNCHANGED <<now, root, dir, writable, constructed, options, ttl, pend, unhandled, nops>>

\* one round of the forEach: lstatSync(curPath), then unlink(curPath) for a
\* file, or the recursive call for a directory (which is empty: its walk
\* lists nothing and issues rmdir(curPath)); lstatSync throws on a name that
\* has disappeared since readdirSync
WalkLstat(p) ==
    /\ proc[p].pc = "lstatSync" /\ proc[p].st = "sync"
    /\ proc[p].todo # {}
    /\ LET n == First(proc[p].todo) IN
       IF dir[n].kind = "none"
       THEN /\ Upd(p, Settle(proc[p], Err("ENOENT")))
            /\ UNCHANGED pend
       ELSE /\ Upd(p, [proc[p] EXCEPT !.todo = @ \ {n}])
            /\ Issue([t |-> IF dir[n].kind = "dir" THEN "rmdir" ELSE "unlink", n |-> n])
    /\ UNCHANGED <<now, root, dir, writable, constructed, options, ttl, unhandled, nops>>

\* rmdir(folder) after the forEach
WalkRmdir(p) ==
    /\ proc[p].pc = "lstatSync" /\ proc[p].st = "sync"
    /\ proc[p].todo = {}
    /\ Issue([t |-> "rmdir", n |-> RootName])
    /\ Upd(p, WalkDone(proc[p]))
    /\ UNCHANGED <<now, root, dir, writable, constructed, options, ttl, unhandled, nops>>

\* ------------------------------------------------------- public operations
Active(q) == proc[q].st \notin {"idle", "done"}

\* the caller's slots are interchangeable: a call takes the first free one
SlotNo == [q \in Clients |-> IF q = "c1" THEN 1 ELSE 2]

CanStart(p) ==
    /\ constructed
    /\ ~Walking
    /\ proc[p].st \in {"idle", "done"}
    /\ Cardinality({q \in Procs : Active(q)}) < MaxInFlight
    /\ \A q \in Clients : ~Active(q) => SlotNo[p] <= SlotNo[q]

\* what the slot's previous operation was and how it ended
PrevOf(r) == IF r.st = "done" /\ r.ret.code = "ok" THEN r.op ELSE "none"

Fresh(p, op, name) == [Idle EXCEPT !.op = op, !.name = name, !.after = PrevOf(proc[p])]

Begin(p, r) ==
    /\ Upd(p, r)
    /\ nops' = nops + 1
    /\ UNCHANGED <<now, root, dir, writable, constructed, options, ttl, pend, unhandled>>

\* has(key); the slot remembers what its has of the same key just returned
StartHas(p, k) ==
    /\ CanStart(p)
    /\ LET q == proc[p]
           again == PrevOf(q) = "has" /\ q.name = getPath(k) IN
       Begin(p, Call([Fresh(p, "has", getPath(k)) EXCEPT
                        !.rep = IF ~again THEN "none"
                                ELSE IF q.ret.v.b THEN "true" ELSE "false",
                        !.rat = IF again THEN q.at ELSE 0], "stat"))

StartGet(p, k) == CanStart(p) /\ Begin(p, Call(Fresh(p, "get", getPath(k)), "stat"))


StartSet(p, k, v, t) ==
    /\ CanStart(p)
    /\ Begin(p, Call([Fresh(p, "set", getPath(k)) EXCEPT !.val = v, !.opt = t],
                      "open"))

StartDelete(p, k) == CanStart(p) /\ Begin(p, Call(Fresh(p, "delete", getPath(k)), "unlink"))

StartGetAllKeys(p) == CanStart(p) /\ Begin(p, Call(Fresh(p, "getAllKeys", RootName), "readdir"))

\* deleteAll() and clear() run into deleteFolderRecursive at once:
\* fs.existsSync(folder) is evaluated as part of the call
StartWipe(p, op) ==
    /\ CanStart(p)
    /\ LET r == Fresh(p, op, RootName) IN
       Begin(p, IF root THEN [r EXCEPT !.pc = "readdirSync", !.st = "sync"]
                ELSE WalkDone(r))

StartDeleteAll(p) == StartWipe(p, "deleteAll")

StartClear(p) == StartWipe(p, "clear")

Tick(max) ==
    /\ now < StartTime + max * TickMs
    /\ now' = now + TickMs
    /\ UNCHANGED <<root, dir, writable, constructed, options, ttl, proc, pend, unhandled, nops>>

Start(p) ==
    \/ \E k \in Keys : StartHas(p, k)
    \/ \E k \in Keys : StartGet(p, k)
    \/ \E k \in Keys, v \in Values, t \in 0..MaxTTL : StartSet(p, k, v, t)
    \/ \E k \in Keys : StartDelete(p, k)
    \/ StartGetAllKeys(p)
    \/ StartDeleteAll(p)
    \/ StartClear(p)

Run(p) ==
    \/ FsMkdir(p) \/ FsReaddir(p) \/ FsStat(p) \/ FsUnlink(p) \/ FsReadFile(p)
    \/ FsOpen(p) \/ FsWrite(p) \/ FsUtimes(p)
    \/ ContMkdir(p) \/ ContReaddir(p) \/ ContStat(p) \/ ContUnlink(p)
    \/ ContReadFile(p) \/ ContWrite(p) \/ ContUtimes(p)
    \/ WalkReaddir(p) \/ WalkRmdir(p)
    \/ WalkLstat(p)

Pool ==
    \/ \E n \in HashNames : PoolUnlink(n)
    \/ \E n \in {SubName, RootName} : PoolRmdir(n)

\* calls overlap: the caller starts a call while others are in flight (the
\* engine is built without a ttl option; set's own option varies)
Next ==
    \/ Construct(0)
    \/ \E p \in Clients : nops < RaceOps /\ Start(p)
    \/ \E p \in Procs : Run(p)
    \/ Pool
    \/ Tick(RaceTicks)

Spec == Init /\ [][Next]_vars

\* nothing is in flight: no call is running and the pool has no work left
Quiescent ==
    /\ \A q \in Procs : ~Active(q)
    /\ \A o \in PendOps : pend[o] = 0

\* calls run one at a time: the caller starts a call when nothing is in flight
NextSeq ==
    \/ \E t \in 0..MaxTTL : Construct(t)
    \/ \E p \in Clients : nops < MaxOps /\ Quiescent /\ Start(p)
    \/ \E p \in Procs : Run(p)
    \/ Pool
    \/ Tick(MaxTicks)

SpecSeq == Init /\ [][NextSeq]_vars

\* ------------------------------------------------------------------ claims
\* the promise of p's call settles in this step
Settles(p) == proc'[p].st = "done" /\ proc[p].st \notin {"done", "idle"}
Resolves(p) == Settles(p) /\ proc'[p].ret.code = "ok"
\* the code after an await of p's call runs in this step
Continues(p) == proc[p].st = "back" /\ proc'[p] # proc[p]

\* get(k) run to its end at clock t on entry e with nothing else in between
GetOf(e, t) == IF e.kind = "file" /\ Live(t, e.mtime) THEN Parse(e.data) ELSE Ok(Null)

\* C1: whenever get(k) returns a payload, Date.now() (in milliseconds, not
\* rounded down to the second) was strictly before the entry's mtime when
\* validate compared them; at now = mtime the entry is not returned.
C1_PayloadOnlyBeforeExpiry ==
    \A p \in Clients :
        (proc[p].op = "get" /\ proc[p].st = "done" /\ proc[p].ret.code = "ok"
            /\ proc[p].ret.v.t = "num") => ~proc[p].late

\* C2: when set(k, v) resolves (calls running one at a time, the ttl not
\* yet elapsed), whatever the file of k was before, it holds
\* JSON.stringify(v) with the deadline set computed, and a get(k) run at
\* once returns v.
C2_SetThenGet ==
    [][\A p \in Clients :
        (proc[p].op = "set" /\ Resolves(p) /\ now < proc[p].dl) =>
            /\ dir'[proc[p].name] = File(Stringify(proc[p].val), proc[p].dl)
            /\ GetOf(dir'[proc[p].name], now') = Ok(Num(proc[p].val))]_vars

\* a second set in a row has resolved and the entry holds 22 (the files of
\* a previous lifetime hold 1), still live
C2_Witness ==
    \E p \in Clients :
        /\ proc[p].op = "set" /\ proc[p].st = "done" /\ proc[p].ret.code = "ok"
        /\ proc[p].after = "set"
        /\ dir[proc[p].name].kind = "file"
        /\ dir[proc[p].name].data = Stringify(22)
        /\ now < dir[proc[p].name].mtime

\* C3: when clear() resolves the root exists and is empty, and no unlink or
\* rmdir that clear() issued is still to take effect.
C3_ClearLeavesEmptyRoot ==
    [][\A p \in Clients :
        (proc[p].op = "clear" /\ Resolves(p)) =>
            /\ root'
            /\ \A n \in Names : dir'[n] = NoEnt
            /\ \A o \in PendOps : pend'[o] = 0]_vars

\* C4: a has(k) or get(k) whose validate finds Date.now() at or past the
\* entry's deadline (the ttl has elapsed) goes on to unlink the file, and
\* returns false (null) with the file gone.
C4_ElapsedEntryIsPruned ==
    [][\A p \in Clients : proc[p].op \in {"has", "get"} =>
        /\ (proc[p].pc = "stat" /\ Continues(p) /\ proc[p].res.code = "file"
                /\ now >= proc[p].res.mtime) => proc'[p].pc = "unlink"
        /\ (proc[p].pc = "unlink" /\ Continues(p)) =>
                /\ proc'[p].ret = (IF proc[p].op = "has" THEN Ok(Bool(FALSE)) ELSE Ok(Null))
                /\ dir'[proc[p].name] = NoEnt]_vars

\* C5: get(k) and has(k) never reject because the file is missing.
C5_ReadsNeverRejectOnMissing ==
    \A p \in Clients :
        (proc[p].op \in {"get", "has"} /\ proc[p].st = "done") => proc[p].ret.code # "ENOENT"

\* C6: when k has no live entry (no file, or Date.now() at or past its
\* mtime) has(k) returns false and get(k) null; getAllKeys() on a missing
\* root returns []; none of them rejects, none creates a file or the root.
C6_MissIsQuiet ==
    [][\A p \in Clients :
        LET r == proc[p]
            miss == IF r.op = "has" THEN Ok(Bool(FALSE)) ELSE Ok(Null) IN
        /\ (r.op \in {"has", "get"} /\ r.pc = "stat" /\ Continues(p)
                /\ (r.res.code # "file" \/ now >= r.res.mtime)) =>
              (proc'[p].pc = "unlink" \/ (proc'[p].st = "done" /\ proc'[p].ret = miss))
        /\ (r.op \in {"has", "get"} /\ r.pc = "unlink" /\ Continues(p)) =>
              (proc'[p].st = "done" /\ proc'[p].ret = miss)
        /\ (r.op = "getAllKeys" /\ Continues(p) /\ r.res.code = "ENOENT") =>
              proc'[p].ret = Ok(Arr({}))
        /\ (r.op \in {"has", "get", "getAllKeys"} /\ proc'[p] # r) =>
              /\ root' => root
              /\ \A n \in Names : dir[n] = NoEnt => dir'[n] = NoEnt]_vars

\* C7: once the constructor has returned, no file that had already expired
\* before construction (its mtime lies before the model's first instant) is
\* left in the root.
C7_ExpiredGoneAtConstruction ==
    constructed => \A n \in HashNames : dir[n].kind = "file" => dir[n].mtime >= StartTime

\* C8: when deleteAll() resolves, the root and every entry under it are
\* gone.
C8_DeleteAllRemovesRoot ==
    [][\A p \in Clients :
        (proc'[p].op = "deleteAll" /\ proc'[p].st = "done" /\ proc'[p].ret.code = "ok"
            /\ proc[p].st # "done") =>
            /\ ~root'
            /\ \A n \in Names : dir'[n] = NoEnt]_vars

\* C9: a set(k, v) issued after deleteAll() resolved either rejects, or
\* resolves with the root existing and the file of k in it.
C9_SetAfterDeleteAll ==
    [][\A p \in Clients :
        (proc[p].op = "set" /\ proc[p].after = "deleteAll" /\ Resolves(p)) =>
            /\ root'
            /\ dir'[proc[p].name].kind = "file"]_vars

\* C10: (calls running one at a time) when delete(k) resolves the file of k
\* is gone, expired or not, and has(k) would be false; when there is no file
\* delete(k) rejects with ENOENT; no step of delete changes the root or
\* another entry.
C10_Delete ==
    [][\A p \in Clients : proc[p].op = "delete" =>
        LET n == proc[p].name IN
        /\ Resolves(p) => (dir'[n] = NoEnt /\ GetOf(dir'[n], now') = Ok(Null))
        /\ (proc[p].st = "call" /\ proc'[p].st = "back" /\ dir[n].kind # "file") =>
              (proc'[p].res.code = "ENOENT" /\ dir' = dir)
        /\ (Continues(p) /\ proc[p].res.code = "ENOENT") =>
              (proc'[p].st = "done" /\ proc'[p].ret = Err("ENOENT"))
        /\ proc'[p] # proc[p] =>
              (root' = root /\ \A m \in Names \ {n} : dir'[m] = dir[m])]_vars

\* delete(k) has rejected with ENOENT while the entry of another key is
\* still in the root
C10_Witness ==
    \E p \in Clients :
        /\ proc[p].op = "delete" /\ proc[p].st = "done" /\ proc[p].ret.code = "ENOENT"
        /\ root
        /\ \E m \in HashNames \ {proc[p].name} : dir[m].kind = "file"

\* C11: (calls running one at a time) has(k) on a live entry (Date.now()
\* before its mtime) returns true; on an expired entry (Date.now() at or past
\* its mtime) it unlinks the file and returns false; and a has(k) that
\* follows a has(k) with no set in between and the clock unchanged since the
\* first one's comparison returns what the first one returned.
C11_HasTwice ==
    [][\A p \in Clients : proc[p].op = "has" =>
        LET r == proc[p] IN
        /\ (r.pc = "stat" /\ Continues(p) /\ r.res.code = "file" /\ now < r.res.mtime) =>
              proc'[p].ret = Ok(Bool(TRUE))
        /\ (r.pc = "stat" /\ Continues(p) /\ r.res.code = "file" /\ now >= r.res.mtime) =>
              proc'[p].pc = "unlink"
        /\ (r.pc = "unlink" /\ Continues(p)) =>
              (proc'[p].ret = Ok(Bool(FALSE)) /\ dir'[r.name] = NoEnt)
        /\ (Resolves(p) /\ r.rep # "none" /\ r.rat = now) =>
              proc'[p].ret = Ok(Bool(r.rep = "true"))]_vars

\* C12: (calls running one at a time) the constructor sets this.ttl to its
\* ttl option, or to 86400 when the option is absent or 0, and nothing
\* changes this.ttl afterwards; the deadline set computes when it issues
\* utimes is Date.now() + t * 1000, t being the call's ttl option when given
\* and otherwise the constructor's ttl or 86400; when set resolves the file's
\* mtime is that deadline; no step of set changes another entry.
C12_Deadline ==
    [][/\ (~constructed /\ constructed') =>
             ttl' = (IF options' # 0 THEN options' ELSE DefaultTTL)
       /\ constructed => (ttl' = ttl /\ options' = options)
       /\ \A p \in Clients : proc[p].op = "set" =>
             LET r == proc[p]
                 default == IF options # 0 THEN options ELSE DefaultTTL
                 seconds == IF r.opt # 0 THEN r.opt ELSE default IN
             /\ (Continues(p) /\ proc'[p].pc = "utimes") =>
                   proc'[p].dl = now + seconds * SecMs
             /\ Resolves(p) =>
                   (dir'[r.name].kind = "file" /\ dir'[r.name].mtime = r.dl)
             /\ proc'[p] # r => \A m \in Names \ {r.name} : dir'[m] = dir[m]]_vars

\* a set with a ttl option has resolved on an engine built without one: the
\* entry's deadline is seconds away while this.ttl is still 86400
C12_Witness ==
    \E p \in Clients :
        /\ proc[p].op = "set" /\ proc[p].st = "done" /\ proc[p].ret.code = "ok"
        /\ options = 0 /\ ttl = DefaultTTL
        /\ dir[proc[p].name].kind = "file"
        /\ dir[proc[p].name].mtime = proc[p].dl
        /\ proc[p].dl <= now + MaxTTL * SecMs

\* C13: when the constructor's mkdir fails for a reason other than EEXIST
\* the constructor does not return an engine (it throws to its caller, the
\* error is nobody's unhandled rejection); EEXIST never makes it fail.
C13_MkdirFailureFailsConstruction ==
    LET r == proc[Ctor] IN
    (r.op = "createFolder" /\ r.st = "done") =>
        /\ r.ret.code # "EEXIST"
        /\ r.ret.code = "EACCES" => (~constructed /\ ~unhandled)

\* C14: (calls running one at a time) when the file of a live entry holds
\* text JSON.parse rejects, get(k) rejects with the SyntaxError instead of
\* returning null, no step of get changes the file, and has(k) returns true
\* for it.
C14_CorruptEntry ==
    [][\A p \in Clients :
        LET r == proc[p]
            e == dir[r.name]
            corrupt == e.kind = "file" /\ ~Parses(e.data) /\ now < e.mtime IN
        /\ (r.op = "get" /\ r.pc = "readFile" /\ Continues(p)
                /\ r.res.code = "ok" /\ ~Parses(r.res.data)) =>
              (proc'[p].st = "done" /\ proc'[p].ret = Err("SyntaxError"))
        /\ (r.op = "get" /\ proc'[p] # r /\ corrupt) => dir'[r.name] = e
        /\ (r.op = "has" /\ r.pc = "stat" /\ Continues(p) /\ corrupt) =>
              (proc'[p].ret = Ok(Bool(TRUE)) /\ dir'[r.name] = e)]_vars

\* after has(k) returned true, get(k) has rejected with the SyntaxError and
\* the corrupt file is still there, as it was
C14_Witness ==
    \E p \in Clients :
        /\ proc[p].op = "get" /\ proc[p].st = "done" /\ proc[p].ret = Err("SyntaxError")
        /\ proc[p].after = "has"
        /\ dir[proc[p].name] = CorruptFile /\ now < CorruptFile.mtime

\* C15: what validate does with the result of its stat.  A missing path:
\* false, nothing changes.  A path that is not a regular file: false, no
\* unlink, nothing changes.  A regular file with Date.now() before its mtime:
\* true, nothing changes (the mtime is not refreshed).  A regular file with
\* Date.now() at or past its mtime: unlink, then false.  validate issues
\* unlink in that last case only.  (has shows the boolean as its result, get
\* by going on to readFile or returning null.)
C15_Validate ==
    [][\A p \in Procs :
        LET r == proc[p]
            returns(b) ==
                /\ r.op = "has" => proc'[p].ret = Ok(Bool(b))
                /\ r.op = "get" => IF b THEN proc'[p].pc = "readFile"
                                   ELSE proc'[p].ret = Ok(Null)
                /\ proc'[p].pc # "unlink" IN
        /\ (r.pc = "stat" /\ Continues(p)) =>
              /\ r.res.code = "ENOENT" => (returns(FALSE) /\ dir' = dir)
              /\ r.res.code = "dir" => (returns(FALSE) /\ dir' = dir)
              /\ (r.res.code = "file" /\ now < r.res.mtime) => (returns(TRUE) /\ dir' = dir)
              /\ (r.res.code = "file" /\ now >= r.res.mtime) => proc'[p].pc = "unlink"
        /\ (r.op # "delete" /\ r.pc = "unlink" /\ Continues(p)) =>
              (r.op = "has" => proc'[p].ret = Ok(Bool(FALSE)))
              /\ (r.op = "get" => proc'[p].ret = Ok(Null))]_vars

\* C16: in the wipe of clear() and deleteAll(), rmdir of a directory is
\* neither issued nor executed while an unlink or rmdir the wipe issued for
\* something under it has not completed; so the rmdir of the root never
\* finds an entry in it.
C16_RmdirAfterContent ==
    [][LET rootdir == [t |-> "rmdir", n |-> RootName] IN
       /\ pend'[rootdir] > pend[rootdir] =>
             \A o \in PendOps \ {rootdir} : pend[o] = 0
       /\ pend'[rootdir] < pend[rootdir] =>
             /\ \A o \in PendOps \ {rootdir} : pend[o] = 0
             /\ \A n \in Names : dir[n] = NoEnt]_vars

\* C17: a file that is gone by the time the wipe of clear() or deleteAll()
\* inspects it (lstatSync) or its unlink runs is taken as already deleted:
\* the wipe does not end clear()/deleteAll() with an error, and the unlink
\* of a missing file raises no unhandled rejection.
C17_VanishedFileTolerated ==
    [][/\ \A p \in Clients :
             (proc[p].op \in {"clear", "deleteAll"} /\ proc[p].pc = "lstatSync"
                 /\ Settles(p)) => proc'[p].ret.code = "ok"
       /\ \A n \in HashNames :
             pend'[[t |-> "unlink", n |-> n]] < pend[[t |-> "unlink", n |-> n]] =>
                 unhandled' = unhandled]_vars

\* every call started so far is the one its slot holds: no slot was reused
NoSlotReused == nops = Cardinality({q \in Clients : proc[q].op # "idle"})

\* C18: when set(k, v1) and set(k, v2) overlap (they are the only calls made,
\* and the constructor's validation pass pruned nothing) and the second of
\* them resolves after the first has resolved, the file of k exists, its
\* content is JSON.stringify(v1) or JSON.stringify(v2), and its mtime is the
\* deadline one of the two computed.
C18_ConcurrentSets ==
    [][\A p, q \in Clients :
        (/\ p # q /\ NoSlotReused /\ ~proc[Ctor].late
         /\ proc[p].op = "set" /\ proc[q].op = "set" /\ proc[p].name = proc[q].name
         /\ proc[q].st = "done" /\ proc[q].ret.code = "ok" /\ Resolves(p)) =>
            LET e == dir'[proc[p].name] IN
            /\ e.kind = "file"
            /\ e.data \in {Stringify(proc[p].val), Stringify(proc[q].val)}
            /\ e.mtime \in {proc[p].dl, proc[q].dl}]_vars

\* C19: when set(k, v) has resolved, a has(k) or get(k) overlapped with it
\* (they are the only calls made, and the constructor's validation pass
\* pruned nothing) and nothing is in flight any more, the file of k holds
\* JSON.stringify(v) with the deadline that set computed.
C19_ReaderKeepsWrittenEntry ==
    \A p, q \in Clients :
        (/\ p # q /\ Quiescent /\ NoSlotReused /\ ~proc[Ctor].late
         /\ proc[p].op = "set" /\ proc[p].st = "done" /\ proc[p].ret.code = "ok"
         /\ proc[q].op \in {"has", "get"} /\ proc[q].name = proc[p].name) =>
            dir[proc[p].name] = File(Stringify(proc[p].val), proc[p].dl)

\* C20: no step of set(k), get(k), has(k) or delete(k), whatever else is
\* in flight, changes the file of another key: its existence, content and
\* mtime stay as they were (the two keys have different sha1 names).
C20_OtherKeysUntouched ==
    [][\A p \in Clients :
        (proc[p].op \in {"set", "get", "has", "delete"} /\ proc'[p] # proc[p]) =>
            \A k \in Keys : getPath(k) # proc[p].name =>
                dir'[getPath(k)] = dir[getPath(k)]]_vars

\* set has resolved on one key, has written 22 there, and the file a
\* previous run left for the other key is as it was
C20_Witness ==
    \E p \in Clients :
        /\ proc[p].op = "set" /\ proc[p].st = "done" /\ proc[p].ret.code = "ok"
        /\ dir[proc[p].name].kind = "file"
        /\ dir[proc[p].name].data = Stringify(22)
        /\ \E k \in Keys : /\ getPath(k) # proc[p].name
                            /\ dir[getPath(k)] \in {LiveFile, CorruptFile}
=============================================================================
